---- MODULE Spec2Model ----
(***************************************************************************)
(* State-machine model of vtkGDALRasterReader (IO/GDAL/vtkGDALRasterReader *)
(* .cxx): the reader object, its vtkGDALRasterReaderInternal, the GDAL     *)
(* decode sessions it opens and closes, and the pipeline output it fills.  *)
(*                                                                         *)
(* RequestInformation is the "Describe" phase, RequestData the "Produce"   *)
(* phase.  Every action is one whole call of the corresponding method.     *)
(***************************************************************************)
EXTENDS Integers, Sequences, FiniteSets, TLC

VARIABLES
  reader,   \* the vtkGDALRasterReader object's own fields
  impl,     \* the vtkGDALRasterReaderInternal fields
  pipe,     \* the pipeline side: outInfo keys and the output data object
  gdal,     \* the decoding library: files on disk, decode sessions, build flavour
  ctl,      \* process status and the result of the last call
  hist      \* history of calls, read only by the properties

vars == <<reader, impl, pipe, gdal, ctl, hist>>

(***************************************************************************)
(* Bounds of the model.                                                    *)
(***************************************************************************)
\* longest list of bands a dataset of the classification universe has
MaxBands == 4
\* most decode sessions one reader opens in a behaviour
MaxOpens == 3

(***************************************************************************)
(* int arithmetic: the reader's extents, offsets and sizes are C++ int.    *)
(* Signed overflow is undefined; AddInt/SubInt give the two's-complement   *)
(* result and AddOverflows/SubOverflows tell that the operation overflowed.*)
(***************************************************************************)
IntMax == 2147483647
IntMin == -IntMax - 1

AddOverflows(a, b) ==
  \/ b > 0 /\ a > IntMax - b
  \/ b < 0 /\ a < IntMin - b

AddInt(a, b) ==
  IF b > 0 /\ a > IntMax - b THEN (a - IntMax - 1) + (b - IntMax - 1)
  ELSE IF b < 0 /\ a < IntMin - b THEN (a + IntMax + 1) + (b + IntMax + 1)
  ELSE a + b

SubOverflows(a, b) ==
  \/ b < 0 /\ a > IntMax + b
  \/ b > 0 /\ a < IntMin + b

SubInt(a, b) ==
  IF b < 0 /\ a > IntMax + b THEN (a - IntMax - 1) - (b + IntMax + 1)
  ELSE IF b > 0 /\ a < IntMin + b THEN (a + IntMax + 1) - (b - IntMax - 1)
  ELSE a - b

\* anonymous-namespace Min and Max (on double; every int is exact in a double)
Min(val1, val2) == IF val1 < val2 THEN val1 ELSE val2
Max(val1, val2) == IF val1 > val2 THEN val1 ELSE val2

Abs(v) == IF v < 0 THEN -v ELSE v

Range(s) == {s[k] : k \in 1..Len(s)}

RECURSIVE SeqSum(_)
SeqSum(s) == IF s = <<>> THEN 0 ELSE Head(s) + SeqSum(Tail(s))

(***************************************************************************)
(* The decoding library (GDAL), as far as the reader uses it.              *)
(***************************************************************************)
\* a null pointer: the null session handle, a null string
Null == 0
NullString == "(null)"
\* vtkMath::Nan() in a field array of whole numbers
NaN == "NaN"

ColorInterp ==
  {"GCI_RedBand", "GCI_GreenBand", "GCI_BlueBand", "GCI_AlphaBand",
   "GCI_GrayIndex", "GCI_PaletteIndex", "GCI_YCbCr_YBand",
   "GCI_YCbCr_CbBand", "GCI_YCbCr_CrBand", "GCI_Undefined"}

\* bytes per pixel of the pixel types ReadData knows
BytesOf(t) ==
  CASE t = "GDT_Byte" -> 1
    [] t = "GDT_UInt16" -> 2
    [] t = "GDT_Int16" -> 2
    [] t = "GDT_UInt32" -> 4
    [] t = "GDT_Int32" -> 4
    [] t = "GDT_Float32" -> 4
    [] t = "GDT_Float64" -> 8
    [] OTHER -> 0

\* value range of a pixel type's RAW_TYPE (the integer types the model uses)
TypeLo(t) == IF t = "GDT_Int16" THEN -32768 ELSE 0
TypeHi(t) == IF t = "GDT_Int16" THEN 32767
             ELSE IF t = "GDT_UInt16" THEN 65535 ELSE 255

\* RasterIO converts a band's pixel to the requested buffer type by clamping
ToBufferType(t, v) == Max(TypeLo(t), Min(TypeHi(t), v))

\* static_cast<RAW_TYPE>(double) of a no-data value
InTypeRange(t, v) == TypeLo(t) <= v /\ v <= TypeHi(t)
CastRaw(t, v) ==
  IF InTypeRange(t, v) THEN v
  ELSE TypeLo(t) + ((v - TypeLo(t)) % (TypeHi(t) - TypeLo(t) + 1))

\* a band: its colour interpretation, its no-data declaration, whether
\* RasterIO on it succeeds, and (palette bands) its colour table
Band(ci, hasNoData, noData, readOK) ==
  [ci |-> ci, hasNoData |-> hasNoData, noData |-> noData, readOK |-> readOK,
   table |-> [present |-> TRUE, interp |-> "GPI_RGB", entries |-> 2,
              hasNames |-> FALSE, names |-> <<>>]]

\* a palette band: the palette interpretation and the entry count of its
\* colour table, and its category names (declared or not)
PaletteBand(interp, entries, hasNames, names) ==
  [Band("GCI_PaletteIndex", FALSE, 0, TRUE) EXCEPT
     !.table = [present |-> TRUE, interp |-> interp, entries |-> entries,
                hasNames |-> hasNames, names |-> names]]

\* a dataset: raster size, bands, pixel type, geotransform (present or not),
\* ground control points, driver, metadata lines, projection, pixel pattern
Dataset(xsize, ysize, bands, type, gt, seed) ==
  [exists |-> TRUE,
   xsize |-> xsize, ysize |-> ysize, bands |-> bands, type |-> type,
   hasGeoTransform |-> gt # <<>>,
   geoTransform |-> IF gt = <<>> THEN <<0, 1, 0, 0, 0, 1>> ELSE gt,
   gcps |-> <<>>, gcpProjection |-> "",
   driver |-> IF type = "GDT_Byte" THEN <<"GTiff", "GeoTIFF">>
              ELSE <<"HFA", "Erdas Imagine">>,
   metaData |-> <<<<"AREA_OR_POINT", 1>>, <<"SEED", seed>>>>,
   projection |-> IF gt = <<>> THEN "" ELSE "WGS84",
   seed |-> seed]

\* a path GDALOpen cannot open
NoFile == [exists |-> FALSE]

\* number of distinct pixel values of the pixel pattern
PixelValues == 5

\* the pixel of band b at raster column x, line y (line 0 is the top line)
PixelValue(ds, b, x, y) == (ds.seed + (b - 1) + x + ds.xsize * y) % PixelValues

\* GDALRasterBand::RasterIO(GF_Read, ...): the status of a windowed read
RasterIOStatus(ds, b, off, dim, destW, destH) ==
  /\ ds.bands[b].readOK
  /\ destW >= 1 /\ destH >= 1
  /\ off[1] >= 0 /\ off[2] >= 0
  /\ dim[1] >= 1 /\ dim[2] >= 1
  /\ off[1] <= ds.xsize /\ dim[1] <= ds.xsize - off[1]
  /\ off[2] <= ds.ysize /\ dim[2] <= ds.ysize - off[2]

\* the destination pixel (x, y) of a windowed read resampled to destW x destH
\* (nearest neighbour: the source pixel under the destination pixel's centre)
ResampleCoord(k, srcOff, srcDim, dest) ==
  srcOff + (((2 * k + 1) * srcDim) \div (2 * dest))

RasterIOPixel(ds, b, type, off, dim, destW, destH, x, y) ==
  ToBufferType(type,
    PixelValue(ds, b, ResampleCoord(x, off[1], dim[1], destW),
                      ResampleCoord(y, off[2], dim[2], destH)))

(***************************************************************************)
(* GenericReadData, lines 310-355: the single pass that classifies bands.  *)
(* A classification is the six role indexes (0: no band yet).              *)
(***************************************************************************)
NoRoles ==
  [redIndex |-> 0, greenIndex |-> 0, blueIndex |-> 0, alphaIndex |-> 0,
   grayIndex |-> 0, paletteIndex |-> 0]

\* mutant of ClassifyBand: a later band of a role replaces the earlier one
ClassifyBandLastWins(st, i, ci) ==
  IF ci \in {"GCI_RedBand", "GCI_YCbCr_YBand"} THEN [st EXCEPT !.redIndex = i]
  ELSE IF ci \in {"GCI_GreenBand", "GCI_YCbCr_CbBand"} THEN [st EXCEPT !.greenIndex = i]
  ELSE IF ci \in {"GCI_BlueBand", "GCI_YCbCr_CrBand"} THEN [st EXCEPT !.blueIndex = i]
  ELSE IF ci = "GCI_AlphaBand" THEN [st EXCEPT !.alphaIndex = i]
  ELSE IF ci = "GCI_GrayIndex" THEN [st EXCEPT !.grayIndex = i]
  ELSE IF ci = "GCI_PaletteIndex" THEN [st EXCEPT !.paletteIndex = i]
  ELSE st

\* one iteration of the loop: band i with colour interpretation ci
ClassifyBand(st, i, ci) ==
  IF ci \in {"GCI_RedBand", "GCI_YCbCr_YBand"} /\ st.redIndex = 0
    THEN [st EXCEPT !.redIndex = i]
  ELSE IF ci \in {"GCI_GreenBand", "GCI_YCbCr_CbBand"} /\ st.greenIndex = 0
    THEN [st EXCEPT !.greenIndex = i]
  ELSE IF ci \in {"GCI_BlueBand", "GCI_YCbCr_CrBand"} /\ st.blueIndex = 0
    THEN [st EXCEPT !.blueIndex = i]
  ELSE IF ci = "GCI_AlphaBand" /\ st.alphaIndex = 0
    THEN [st EXCEPT !.alphaIndex = i]
  ELSE IF ci = "GCI_GrayIndex" /\ st.grayIndex = 0
    THEN [st EXCEPT !.grayIndex = i]
  ELSE IF ci = "GCI_PaletteIndex" /\ st.paletteIndex = 0
    THEN [st EXCEPT !.paletteIndex = i]
  ELSE st

\* the loop over bands 1..n of a dataset
RECURSIVE ClassifyUpTo(_, _)
ClassifyUpTo(bands, n) ==
  IF n = 0 THEN NoRoles
  ELSE ClassifyBand(ClassifyUpTo(bands, n - 1), n, bands[n].ci)

Classify(bands, numberOfBands) == ClassifyUpTo(bands, numberOfBands)

\* lines 371-496: the primary group, in slot order
GroupIndex(st) ==
  IF st.redIndex # 0 /\ st.greenIndex # 0 /\ st.blueIndex # 0
    THEN IF st.alphaIndex # 0
           THEN <<st.redIndex, st.greenIndex, st.blueIndex, st.alphaIndex>>
           ELSE <<st.redIndex, st.greenIndex, st.blueIndex>>
  ELSE IF st.grayIndex # 0
    THEN IF st.alphaIndex # 0
           THEN <<st.grayIndex, st.alphaIndex>>
           ELSE <<st.grayIndex>>
  ELSE IF st.paletteIndex # 0
    THEN <<st.paletteIndex>>
  ELSE <<>>

\* which branch of lines 373-496 formed the primary group
GroupKind(st) ==
  IF st.redIndex # 0 /\ st.greenIndex # 0 /\ st.blueIndex # 0
    THEN IF st.alphaIndex # 0 THEN "RGBA" ELSE "RGB"
  ELSE IF st.grayIndex # 0
    THEN IF st.alphaIndex # 0 THEN "GrayAlpha" ELSE "Gray"
  ELSE IF st.paletteIndex # 0 THEN "Palette"
  ELSE "none"

\* mutant of OtherIndex: the group's entries are not zeroed
OtherIndexKeepsGroup(numberOfBands, groupIndex) ==
  [i \in 1..numberOfBands |-> i]

\* otherIndex after the group's entries were zeroed: band i, or 0
OtherIndex(numberOfBands, groupIndex) ==
  [i \in 1..numberOfBands |-> IF i \in Range(groupIndex) THEN 0 ELSE i]

(***************************************************************************)
(* Convert, lines 548-605.                                                 *)
(***************************************************************************)
\* mutant of FlipIndex: the flip flag is ignored
FlipIndexIgnored(flip, k, size) == k

\* lines 569 and 572: the source row or column of output row or column k
FlipIndex(flip, k, size) == IF flip THEN size - 1 - k ELSE k

\* lines 583-584
TargetIndex(i, j, bi, n, targetWidth) == i * n + j * targetWidth * n + bi

\* lines 585-586
SourceIndex(iIndex, jIndex, bi, targetWidth, targetHeight) ==
  iIndex + jIndex * targetWidth + bi * targetWidth * targetHeight

\* the iterations of the three nested loops: output column i, row j, slot bi
ConvertIterations(targetWidth, targetHeight, n) ==
  {<<i, j, bi>> : i \in 0..(targetWidth - 1), j \in 0..(targetHeight - 1),
                  bi \in 0..(n - 1)}

\* position of an iteration in loop order (j outer, i, bi inner)
IterationRank(c, n, targetWidth) == (c[2] * targetWidth + c[1]) * n + c[3]

\* line 588: the raw value an iteration fetches
FetchedValue(raw, c, targetWidth, targetHeight, flipX, flipY) ==
  raw[SourceIndex(FlipIndex(flipX, c[1], targetWidth),
                  FlipIndex(flipY, c[2], targetHeight),
                  c[3], targetWidth, targetHeight)]

\* lines 577-581 and 589: the fetched value is the band's no-data value
MatchesNoData(hasNoData, noData, type, bandIndex, tmp) ==
  hasNoData[bandIndex] # 0 /\ tmp = CastRaw(type, noData[bandIndex])

\* a tuple SetNumberOfTuples (line 565) allocated and no InsertValue wrote
Uninitialized == -99999

\* vtkAbstractArray::SetNumberOfComponents, called at line 564 with the number
\* of slots of the group: the array keeps the count it is given
SetNumberOfComponents(num) == num

\* The whole of Convert: the array it adds, the ids it passes to BlankCell,
\* what it adds to NumberOfCells, and whether it read rawUniformGridData[0]
\* of an empty vector (line 560) or cast an out-of-range no-data value.
Convert(raw, targetWidth, targetHeight, groupIndex, name, flipX, flipY, hasNoData, noData, type) ==
  LET n == Len(groupIndex)
      its == ConvertIterations(targetWidth, targetHeight, n)
      tmp(c) == FetchedValue(raw, c, targetWidth, targetHeight, flipX, flipY)
      match(c) == MatchesNoData(hasNoData, noData, type, groupIndex[c[3] + 1],
                                tmp(c))
      tgt(c) == TargetIndex(c[1], c[2], c[3], n, targetWidth)
      writers(t) == {c \in its : tgt(c) = t}
      last(t) == CHOOSE c \in writers(t) :
                   \A d \in writers(t) :
                     IterationRank(d, n, targetWidth)
                       <= IterationRank(c, n, targetWidth)
  IN [array |->
        [name |-> name, components |-> SetNumberOfComponents(n), bands |-> groupIndex,
         values |-> [t \in 0..(n * targetWidth * targetHeight - 1) |->
                       IF writers(t) = {} THEN Uninitialized
                       ELSE tmp(last(t))]],
      blankCalls |-> {tgt(c) : c \in {d \in its : match(d)}},
      live |-> Cardinality({c \in its : ~match(c)}),
      ub |-> \/ DOMAIN raw = {}
             \/ \E k \in Range(groupIndex) :
                  hasNoData[k] # 0 /\ ~InTypeRange(type, noData[k])]

\* vtkUniformGrid::BlankCell on a grid of nCells cells: ids of the grid are
\* blanked; an id outside the grid writes outside the ghost array
BlankedCells(blankCalls, nCells) == {id \in blankCalls : id < nCells}
BlankOutOfRange(blankCalls, nCells) == \E id \in blankCalls : id >= nCells

(***************************************************************************)
(* GetGeoCornerPoint and GetGeoCornerPoints, lines 608-696.  Coordinates   *)
(* are doubles in the code; the model's datasets use whole numbers, and a  *)
(* ground control point's pixel and line are kept doubled (0.5 is 1).      *)
(***************************************************************************)
\* lines 659-668: the last of the four GCPs that matches the corner, or (0,0)
RECURSIVE GcpLookup(_, _, _, _)
GcpLookup(gcps, leftCorner, upperCorner, k) ==
  IF k = 0 THEN <<0, 0>>
  ELSE IF (gcps[k].pixel2 = 1) = leftCorner /\ (gcps[k].line2 = 1) = upperCorner
    THEN <<gcps[k].x, gcps[k].y>>
  ELSE GcpLookup(gcps, leftCorner, upperCorner, k - 1)

GcpCount == 4

\* mutant of GetGeoCornerPoint: without a geotransform the output stays (0,0)
GetGeoCornerPointUnset(ds, x, y) ==
  IF ds.gcpProjection = NullString \/ ds.gcps = <<>>
    THEN IF ds.hasGeoTransform
           THEN [out |-> <<ds.geoTransform[1] + ds.geoTransform[2] * x
                             + ds.geoTransform[3] * y,
                           ds.geoTransform[4] + ds.geoTransform[5] * x
                             + ds.geoTransform[6] * y>>,
                 retVal |-> TRUE]
           ELSE [out |-> <<0, 0>>, retVal |-> FALSE]
    ELSE [out |-> GcpLookup(ds.gcps, x = 0, y = 0, GcpCount), retVal |-> FALSE]

GetGeoCornerPoint(ds, x, y) ==
  IF ds.gcpProjection = NullString \/ ds.gcps = <<>>
    THEN IF ds.hasGeoTransform
           THEN [out |-> <<ds.geoTransform[1] + ds.geoTransform[2] * x
                             + ds.geoTransform[3] * y,
                           ds.geoTransform[4] + ds.geoTransform[5] * x
                             + ds.geoTransform[6] * y>>,
                 retVal |-> TRUE]
           ELSE [out |-> <<x, y>>, retVal |-> FALSE]
    ELSE [out |-> GcpLookup(ds.gcps, x = 0, y = 0, GcpCount), retVal |-> FALSE]

\* mutant of GetGeoCornerPoints: the corners are walked the other way round
GetGeoCornerPointsClockwise(ds, rasterDimensions) ==
  <<GetGeoCornerPoint(ds, 0, 0).out,
    GetGeoCornerPoint(ds, rasterDimensions[1], 0).out,
    GetGeoCornerPoint(ds, rasterDimensions[1], rasterDimensions[2]).out,
    GetGeoCornerPoint(ds, 0, rasterDimensions[2]).out>>

\* CornerPoints[0..7] as four pairs: corners (0,0), (0,H), (W,H), (W,0)
GetGeoCornerPoints(ds, rasterDimensions) ==
  <<GetGeoCornerPoint(ds, 0, 0).out,
    GetGeoCornerPoint(ds, 0, rasterDimensions[2]).out,
    GetGeoCornerPoint(ds, rasterDimensions[1], rasterDimensions[2]).out,
    GetGeoCornerPoint(ds, rasterDimensions[1], 0).out>>

\* lines 502-504: geoSpacing[0] and [1] as fractions num/den (den > 0)
GeoSpacing(d, rasterDimensions) ==
  <<[num |-> d[3][1] - d[1][1], den |-> rasterDimensions[1]],
    [num |-> d[3][2] - d[1][2], den |-> rasterDimensions[2]]>>

\* mutant of FlipX: the columns are reversed when the X spacing is positive
FlipXInverted(geoSpacing) == geoSpacing[1].num > 0

\* lines 511 and 529: the flip flags handed to Convert
FlipX(geoSpacing) == geoSpacing[1].num < 0
FlipY(geoSpacing) == geoSpacing[2].num < 0

(***************************************************************************)
(* ReadColorTable, lines 699-743.                                          *)
(***************************************************************************)
\* a vtkLookupTable as vtkSmartPointer<vtkLookupTable>::New() leaves it
NewLookupTable ==
  [indexedLookup |-> FALSE, built |-> FALSE, tableValues |-> <<>>,
   annotations |-> <<>>]

\* lines 726-741: the annotation given to entry i (0-based): the category
\* name, the text "Category i", or none
Annotation(hasNames, categoryNames, i) ==
  IF hasNames
    THEN IF categoryNames[i + 1] # ""
           THEN [kind |-> "name", text |-> categoryNames[i + 1], index |-> i]
           ELSE [kind |-> "none", text |-> "", index |-> i]
    ELSE [kind |-> "default", text |-> "Category " \o ToString(i), index |-> i]

ReadColorTable(band, colorTable) ==
  IF band.table.interp # "GPI_RGB" THEN colorTable
  ELSE [indexedLookup |-> TRUE, built |-> TRUE,
        tableValues |-> [i \in 1..band.table.entries |->
                           [num |-> <<i - 1, i - 1, i - 1, 255>>, den |-> 255]],
        annotations |-> [i \in 1..band.table.entries |->
                           Annotation(band.table.hasNames, band.table.names, i - 1)]]

\* ReadColorTable dereferences a missing colour table (line 703) or reads
\* past the end of the category-name list (line 729)
ReadColorTableUB(band) ==
  \/ ~band.table.present
  \/ /\ band.table.interp = "GPI_RGB"
     /\ band.table.hasNames
     /\ Len(band.table.names) < band.table.entries

(***************************************************************************)
(* GenericReadData, lines 283-539.                                         *)
(***************************************************************************)
\* what every RasterIO call and every Convert call of one GenericReadData
\* shares: the open dataset, the window, the target size, the element type
ReadContext(ds, im, rd) ==
  [ds |-> ds,
   off |-> im.SourceOffset, dim |-> im.SourceDimensions,
   destWidth |-> rd.TargetDimensions[1], destHeight |-> rd.TargetDimensions[2],
   type |-> im.TargetDataType,
   hasNoData |-> [i \in 1..im.NumberOfBands |->
                    IF ds.bands[i].hasNoData THEN 1 ELSE 0],
   noData |-> [i \in 1..im.NumberOfBands |-> ds.bands[i].noData]]

\* err of one RasterIO call (TRUE: CE_None)
ReadStatus(cx, b) ==
  RasterIOStatus(cx.ds, b, cx.off, cx.dim, cx.destWidth, cx.destHeight)

\* one RasterIO call into slot `slot` of the buffer: on CE_None the slot holds
\* the resampled window, otherwise the buffer is as it was
ReadBandInto(raw, cx, b, slot) ==
  LET cells == cx.destWidth * cx.destHeight
  IN IF ~ReadStatus(cx, b) THEN raw
     ELSE [k \in DOMAIN raw |->
             IF k \div cells # slot THEN raw[k]
             ELSE RasterIOPixel(cx.ds, b, cx.type, cx.off, cx.dim,
                                cx.destWidth, cx.destHeight,
                                (k % cells) % cx.destWidth,
                                (k % cells) \div cx.destWidth)]

\* std::vector::resize: kept elements, value-initialised new ones
Resize(raw, size) == [k \in 0..(size - 1) |-> IF k \in DOMAIN raw THEN raw[k] ELSE 0]

\* the same for a vector the model indexes from 1
ResizeVector(v, size) == [k \in 1..size |-> IF k \in DOMAIN v THEN v[k] ELSE 0]

\* lines 371-496: the reads of the primary group, slot by slot
RECURSIVE ReadGroup(_, _, _, _)
ReadGroup(raw, cx, groupIndex, bi) ==
  IF bi >= Len(groupIndex) THEN raw
  ELSE ReadGroup(ReadBandInto(raw, cx, groupIndex[bi + 1], bi), cx, groupIndex,
                 bi + 1)

\* the Reader's scalar component count after lines 389, 419, 451, 470, 486
ScalarComponents(groupIndex, before) ==
  IF groupIndex = <<>> THEN before ELSE Len(groupIndex)

\* the name line 528 gives the array of residual band k
ResidualName(k) == "band_" \o ToString(k)

\* lines 515-531: the loop over otherBands from index i on.  acc carries the
\* buffer, the arrays added, the (group, buffer) pair each Convert was given,
\* the BlankCell ids, the NumberOfCells increments, and whether a read failed
\* or a Convert met undefined behaviour
RECURSIVE ResidualLoop(_, _, _, _, _, _)
ResidualLoop(acc, cx, otherIndex, flipX, flipY, i) ==
  IF i > Len(otherIndex) THEN acc
  ELSE IF otherIndex[i] = 0
    THEN ResidualLoop(acc, cx, otherIndex, flipX, flipY, i + 1)
  ELSE
    LET raw == ReadBandInto(acc.raw, cx, otherIndex[i], 0)
        cv == Convert(raw, cx.destWidth, cx.destHeight, <<otherIndex[i]>>, ResidualName(otherIndex[i]), flipX, flipY, cx.hasNoData, cx.noData, cx.type)
    IN ResidualLoop(
         [raw |-> raw,
          arrays |-> Append(acc.arrays, cv.array),
          passes |-> Append(acc.passes, [groupIndex |-> <<otherIndex[i]>>, raw |-> raw]),
          blankCalls |-> acc.blankCalls \cup cv.blankCalls,
          live |-> acc.live + cv.live,
          failed |-> acc.failed \/ ~ReadStatus(cx, otherIndex[i]),
          ub |-> acc.ub \/ cv.ub],
         cx, otherIndex, flipX, flipY, i + 1)

\* lines 533-538: a palette band was seen: the active scalars are renamed
RenameScalars(arrays, active, paletteIndex) ==
  IF paletteIndex = 0 THEN arrays
  ELSE [k \in DOMAIN arrays |->
          IF arrays[k].name = active
            THEN [arrays[k] EXCEPT !.name = "Categories"]
            ELSE arrays[k]]

GenericReadData(ds, im, rd) ==
  LET cx == ReadContext(ds, im, rd)
      st == Classify(ds.bands, im.NumberOfBands)
      groupIndex == GroupIndex(st)
      otherIndex == OtherIndex(im.NumberOfBands, groupIndex)
      cells == cx.destWidth * cx.destHeight
      rawGroup == ReadGroup(Resize(<<>>, Len(groupIndex) * cells), cx, groupIndex, 0)
      colorTable == IF GroupKind(st) = "Palette"
                      THEN ReadColorTable(ds.bands[st.paletteIndex], NewLookupTable)
                      ELSE NewLookupTable
      d == GetGeoCornerPoints(ds, rd.RasterDimensions)
      geoSpacing == GeoSpacing(d, rd.RasterDimensions)
      flipX == FlipX(geoSpacing)
      flipY == FlipY(geoSpacing)
      cv == Convert(rawGroup, cx.destWidth, cx.destHeight, groupIndex, "Elevation", flipX, flipY, cx.hasNoData, cx.noData, cx.type)
      res == ResidualLoop(
               [raw |-> Resize(rawGroup, cells), arrays |-> <<cv.array>>,
                passes |-> <<[groupIndex |-> groupIndex, raw |-> rawGroup]>>,
                blankCalls |-> cv.blankCalls, live |-> cv.live,
                failed |-> \E k \in Range(groupIndex) : ~ReadStatus(cx, k),
                ub |-> cv.ub],
               cx, otherIndex, flipX, flipY, 1)
  IN [grid |->
        [extent |-> <<0, cx.destWidth, 0, cx.destHeight, 0, 0>>,
         spacing |-> <<[num |-> Abs(geoSpacing[1].num), den |-> geoSpacing[1].den],
                       [num |-> Abs(geoSpacing[2].num), den |-> geoSpacing[2].den],
                       1>>,
         origin |-> <<Min(d[1][1], d[3][1]), Min(d[1][2], d[3][2]), 0>>,
         arrays |-> RenameScalars(res.arrays, "Elevation", st.paletteIndex),
         activeScalars |-> IF st.paletteIndex = 0 THEN "Elevation" ELSE "Categories",
         null |-> FALSE,
         hasLookupTable |-> st.paletteIndex # 0,
         lookupTable |-> IF st.paletteIndex = 0 THEN NewLookupTable ELSE colorTable,
         blanked |-> BlankedCells(res.blankCalls, cells),
         fieldData |-> <<>>],
      NumberOfCells |-> res.live,
      passes |-> res.passes,
      flips |-> <<flipX, flipY>>,
      HasNoDataValue |-> cx.hasNoData,
      NoDataValue |-> cx.noData,
      CornerPoints |-> d,
      NumberOfScalarComponents |-> ScalarComponents(groupIndex, rd.NumberOfScalarComponents),
      readFailed |-> res.failed,
      ub |-> \/ res.ub
             \/ BlankOutOfRange(res.blankCalls, cells)
             \/ GroupKind(st) = "Palette" /\ ReadColorTableUB(ds.bands[st.paletteIndex])]

(***************************************************************************)
(* Decode sessions.  A session is what GDALOpen returns; GDALData holds    *)
(* Null or the number of a session.                                        *)
(***************************************************************************)
Openable(path) == path \in DOMAIN gdal.files /\ gdal.files[path].exists

\* the dataset behind a session handle
DatasetOf(g, handle) == g.files[g.sessions[handle].path]

\* GDALClose(handle); GDALClose(nullptr) does nothing
GDALClose(g, handle) ==
  IF handle = Null THEN g
  ELSE [g EXCEPT !.sessions[handle].open = FALSE,
                 !.sessions[handle].closes = @ + 1,
                 !.log = Append(@, <<"close", handle>>)]

\* GDALOpen(path, GA_ReadOnly) of a file that can be opened
GDALOpen(g, path) ==
  [g EXCEPT !.sessions = Append(@, [path |-> path, open |-> TRUE, closes |-> 0]),
            !.log = Append(@, <<"open", Len(g.sessions) + 1>>)]

\* mutant of ReleaseData: the session is left open
ReleaseDataSkipped(g, im) == g

\* line 542-545: ReleaseData closes GDALData and leaves the pointer as it is
ReleaseData(g, im) == GDALClose(g, im.GDALData)

\* the handle ReadMetaData stores at lines 163-164
OpenedHandle(g, path) ==
  IF ~g.files[path].exists THEN Null ELSE Len(g.sessions) + 1

\* mutant of FailedOpen: the metadata lines are cleared before the open
FailedOpenClearsMetaData(released, im, rd) ==
  [gdal |-> released,
   impl |-> [im EXCEPT !.GDALData = Null],
   reader |-> [rd EXCEPT !.MetaData = <<>>]]

\* lines 163-170: GDALOpen returned null; only GDALData changes
FailedOpen(released, im, rd) ==
  [gdal |-> released,
   impl |-> [im EXCEPT !.GDALData = Null],
   reader |-> rd]

(***************************************************************************)
(* ReadMetaData, lines 152-197: the new gdal, impl and reader.             *)
(***************************************************************************)
ReadMetaData(g, im, rd, fileName) ==
  IF fileName = im.PrevReadFileName THEN [gdal |-> g, impl |-> im, reader |-> rd]
  ELSE
    LET released == ReleaseData(g, im)
        handle == OpenedHandle(released, fileName)
    IN IF handle = Null
         THEN FailedOpen(released, im, rd)
         ELSE
           LET ds == g.files[fileName]
           IN [gdal |-> GDALOpen(released, fileName),
               impl |-> [im EXCEPT !.GDALData = handle,
                                   !.PrevReadFileName = fileName,
                                   !.NumberOfBands = Len(ds.bands),
                                   !.HasNoDataValue = ResizeVector(@, Len(ds.bands)),
                                   !.NoDataValue = ResizeVector(@, Len(ds.bands))],
               reader |-> [rd EXCEPT !.MetaData = ds.metaData,
                                     !.RasterDimensions = <<ds.xsize, ds.ysize>>,
                                     !.DriverShortName = ds.driver[1],
                                     !.DriverLongName = ds.driver[2]]]

\* ReadMetaData would call GDALOpen on a file that opens
WouldOpen(fileName) ==
  fileName # impl.PrevReadFileName /\ Openable(fileName)

(***************************************************************************)
(* RequestInformation, lines 1005-1064: extent, source window, rewritten   *)
(* extent.  An extent is <<xmin, xmax, ymin, ymax, zmin, zmax>>.           *)
(***************************************************************************)
\* lines 1005-1013
DefaultExtent(e, rasterDimensions) ==
  IF e[1] = -1
    THEN <<0, rasterDimensions[1] - 1, 0, rasterDimensions[2] - 1, 0, 0>>
    ELSE e

\* lines 1016-1023: offset and size before clamping
RawOffset(e, rasterDimensions) ==
  <<e[1], SubInt(rasterDimensions[2], AddInt(e[4], 1))>>
RawSize(e) ==
  <<AddInt(SubInt(e[2], e[1]), 1), AddInt(SubInt(e[4], e[3]), 1)>>

\* lines 1026-1034
ClampOffset(offset, rasterDim) == Max(0, Min(rasterDim, offset))

\* lines 1036-1054
ClampSize(size, offset, rasterDim) ==
  LET s == Max(0, size)
  IN IF AddInt(s, offset) > rasterDim THEN rasterDim - offset ELSE s

\* mutant of RewrittenExtent: the X range is written one pixel to the right
RewrittenExtentShifted(off, dim, rasterDimensions) ==
  LET e3 == rasterDimensions[2] - off[2] - 1
  IN <<AddInt(off[1], 1), AddInt(off[1], dim[1]),
       AddInt(SubInt(e3, dim[2]), 1), e3, 0, 0>>

\* lines 1056-1064
RewrittenExtent(off, dim, rasterDimensions) ==
  LET e3 == rasterDimensions[2] - off[2] - 1
  IN <<off[1], SubInt(AddInt(off[1], dim[1]), 1),
       AddInt(SubInt(e3, dim[2]), 1), e3, 0, 0>>

\* the int operations of lines 1016-1062 that overflow for extent e
WindowOverflows(e, rasterDimensions) ==
  LET ro == RawOffset(e, rasterDimensions)
      rs == RawSize(e)
      off == <<ClampOffset(ro[1], rasterDimensions[1]),
               ClampOffset(ro[2], rasterDimensions[2])>>
      dim == <<ClampSize(rs[1], off[1], rasterDimensions[1]),
               ClampSize(rs[2], off[2], rasterDimensions[2])>>
      e3 == rasterDimensions[2] - off[2] - 1
  IN \/ AddOverflows(e[4], 1)
     \/ SubOverflows(rasterDimensions[2], AddInt(e[4], 1))
     \/ SubOverflows(e[2], e[1]) \/ AddOverflows(SubInt(e[2], e[1]), 1)
     \/ SubOverflows(e[4], e[3]) \/ AddOverflows(SubInt(e[4], e[3]), 1)
     \/ AddOverflows(Max(0, rs[1]), off[1])
     \/ AddOverflows(Max(0, rs[2]), off[2])
     \/ AddOverflows(off[1], dim[1]) \/ SubOverflows(AddInt(off[1], dim[1]), 1)
     \/ SubOverflows(e3, dim[2]) \/ AddOverflows(SubInt(e3, dim[2]), 1)

SourceWindow(e, rasterDimensions) ==
  LET ro == RawOffset(e, rasterDimensions)
      rs == RawSize(e)
      off == <<ClampOffset(ro[1], rasterDimensions[1]),
               ClampOffset(ro[2], rasterDimensions[2])>>
  IN [SourceOffset |-> off,
      SourceDimensions |-> <<ClampSize(rs[1], off[1], rasterDimensions[1]),
                             ClampSize(rs[2], off[2], rasterDimensions[2])>>]

(***************************************************************************)
(* The state after construction (lines 120-143 and 778-806).               *)
(***************************************************************************)
NoGrid ==
  [extent |-> <<0, -1, 0, -1, 0, -1>>, spacing |-> <<>>, origin |-> <<>>,
   arrays |-> <<>>, activeScalars |-> "", null |-> TRUE,
   hasLookupTable |-> FALSE, lookupTable |-> NewLookupTable,
   blanked |-> {}, fieldData |-> <<>>]

\* the output data object the pipeline allocated, before any ShallowCopy
EmptyOutput == [NoGrid EXCEPT !.null = FALSE]

InitReader ==
  [FileName |-> NullString,
   DataOrigin |-> <<0, 0, 0>>, DataSpacing |-> <<1, 1, 1>>,
   DataExtent |-> <<-1, -1, -1, -1, -1, -1>>,
   TargetDimensions |-> <<-1, -1>>, RasterDimensions |-> <<-1, -1>>,
   DriverShortName |-> "", DriverLongName |-> "", MetaData |-> <<>>,
   Projection |-> "", NumberOfScalarComponents |-> 1,
   DataScalarType |-> "VTK_SHORT"]

InitImpl ==
  [NumberOfBands |-> 0, NumberOfBytesPerPixel |-> 0,
   SourceOffset |-> <<0, 0>>, SourceDimensions |-> <<0, 0>>,
   PrevReadFileName |-> "", GDALData |-> Null, TargetDataType |-> "GDT_Byte",
   CornerPoints |-> <<<<-1, -1>>, <<-1, -1>>, <<-1, -1>>, <<-1, -1>>>>,
   HasNoDataValue |-> <<>>, NoDataValue |-> <<>>, NumberOfCells |-> 0,
   UniformGridData |-> NoGrid]

InitPipe ==
  [outInfo |-> [set |-> FALSE, WHOLE_EXTENT |-> <<>>, SPACING |-> <<>>,
                ORIGIN |-> <<>>, MAP_PROJECTION |-> ""],
   output |-> EmptyOutput]

InitCtl == [crashed |-> FALSE, destroyed |-> FALSE, lastCall |-> "none", retVal |-> 1]

\* nothing recorded yet
InitHist ==
  [passes |-> <<>>, flips |-> <<FALSE, FALSE>>, readFailed |-> FALSE,
   committed |-> FALSE, closedUse |-> FALSE,
   firstDescribe |-> <<>>, firstProduce |-> <<>>,
   describeRepeated |-> FALSE, produceRepeated |-> FALSE,
   openFailed |-> FALSE]

\* the decoding library over a given set of files, asserts on or off
InitGdal(files, ndebug) ==
  [files |-> files, sessions |-> <<>>, log |-> <<>>, ndebug |-> ndebug]

(***************************************************************************)
(* The caller's setters (vtkImageReader2::SetFileName, SetDataExtent and   *)
(* the reader's SetTargetDimensions).                                      *)
(***************************************************************************)
Alive == ~ctl.crashed /\ ~ctl.destroyed

\* a setter starts a new series of Describe/Produce cycles
NewSeries(h) ==
  [h EXCEPT !.firstDescribe = <<>>, !.firstProduce = <<>>,
            !.describeRepeated = FALSE, !.produceRepeated = FALSE]

SetFileName(path) ==
  /\ Alive
  /\ reader.FileName # path
  /\ reader' = [reader EXCEPT !.FileName = path]
  /\ ctl' = [ctl EXCEPT !.lastCall = "SetFileName"]
  /\ hist' = NewSeries(hist)
  /\ UNCHANGED <<impl, pipe, gdal>>

SetDataExtent(e) ==
  /\ Alive
  /\ reader.DataExtent # e
  /\ reader' = [reader EXCEPT !.DataExtent = e]
  /\ ctl' = [ctl EXCEPT !.lastCall = "SetDataExtent"]
  /\ hist' = NewSeries(hist)
  /\ UNCHANGED <<impl, pipe, gdal>>

SetTargetDimensions(t) ==
  /\ Alive
  /\ reader.TargetDimensions # t
  /\ reader' = [reader EXCEPT !.TargetDimensions = t]
  /\ ctl' = [ctl EXCEPT !.lastCall = "SetTargetDimensions"]
  /\ hist' = NewSeries(hist)
  /\ UNCHANGED <<impl, pipe, gdal>>

(***************************************************************************)
(* RequestInformation, lines 966-1088 ("Describe").                        *)
(***************************************************************************)
\* lines 991-1088, after a successful ReadMetaData: the reader, the window
\* and the keys published on outInfo
DescribeOpened(ds, rd) ==
  LET target == IF rd.TargetDimensions = <<-1, -1>> THEN rd.RasterDimensions
                ELSE rd.TargetDimensions
      e == DefaultExtent(rd.DataExtent, rd.RasterDimensions)
      w == SourceWindow(e, rd.RasterDimensions)
      extent == RewrittenExtent(w.SourceOffset, w.SourceDimensions, rd.RasterDimensions)
      origin == <<ds.geoTransform[1], ds.geoTransform[4], 0>>
      spacing == <<ds.geoTransform[2], ds.geoTransform[6], 0>>
  IN [reader |-> [rd EXCEPT !.TargetDimensions = target, !.DataExtent = extent,
                            !.DataOrigin = origin, !.DataSpacing = spacing],
      window |-> w,
      overflow |-> WindowOverflows(e, rd.RasterDimensions),
      outInfo |-> [set |-> TRUE, WHOLE_EXTENT |-> extent, SPACING |-> spacing,
                   ORIGIN |-> origin, MAP_PROJECTION |-> ds.projection]]

RequestInformation ==
  /\ Alive
  /\ WouldOpen(reader.FileName) => Len(gdal.sessions) < MaxOpens
  /\ IF reader.FileName = NullString
       THEN /\ ctl' = [ctl EXCEPT !.lastCall = "RequestInformation", !.retVal = 0]
            /\ UNCHANGED <<reader, impl, pipe, gdal, hist>>
       ELSE
         \E m \in {ReadMetaData(gdal, impl, reader, reader.FileName)} :
            IF m.impl.GDALData = Null
              \/ (m.reader.RasterDimensions[1] <= 0 /\ m.reader.RasterDimensions[2] <= 0)
              THEN /\ reader' = m.reader
                   /\ impl' = m.impl
                   /\ gdal' = m.gdal
                   /\ ctl' = [ctl EXCEPT !.lastCall = "RequestInformation", !.retVal = 0]
                   /\ hist' = [hist EXCEPT
                        !.openFailed = @ \/ ~Openable(reader.FileName)]
                   /\ UNCHANGED pipe
              ELSE
                \E r \in {DescribeOpened(DatasetOf(m.gdal, m.impl.GDALData), m.reader)} :
                   \E trap \in BOOLEAN :
                     IF r.overflow /\ trap
                       THEN /\ ctl' = [ctl EXCEPT !.crashed = TRUE,
                                                  !.lastCall = "RequestInformation"]
                            /\ reader' = m.reader
                            /\ impl' = m.impl
                            /\ gdal' = m.gdal
                            /\ UNCHANGED <<pipe, hist>>
                       ELSE /\ reader' = r.reader
                            /\ impl' = [m.impl EXCEPT
                                 !.SourceOffset = r.window.SourceOffset,
                                 !.SourceDimensions = r.window.SourceDimensions]
                            /\ gdal' = m.gdal
                            /\ pipe' = [pipe EXCEPT !.outInfo = r.outInfo]
                            /\ ctl' = [ctl EXCEPT !.lastCall = "RequestInformation",
                                                  !.retVal = 1]
                            /\ hist' = [hist EXCEPT
                                 !.closedUse = @ \/ ~m.gdal.sessions[m.impl.GDALData].open,
                                 !.describeRepeated = @ \/ hist.firstDescribe # <<>>,
                                 !.firstDescribe =
                                   IF @ = <<>>
                                     THEN <<[window |-> r.window,
                                             extent |-> r.reader.DataExtent]>>
                                     ELSE @]

(***************************************************************************)
(* ReadData and RequestData, lines 200-280 and 889-963 ("Produce").        *)
(***************************************************************************)
\* lines 213-228: the element type, set while NumberOfBytesPerPixel is 0
WithDataType(im, ds) ==
  IF im.NumberOfBytesPerPixel = 0
    THEN [im EXCEPT !.TargetDataType = ds.type,
                    !.NumberOfBytesPerPixel = BytesOf(ds.type)]
    ELSE im

\* lines 234-279: the scalar type the switch sets on the reader
ScalarTypeOf(t) ==
  CASE t = "GDT_UInt16" -> "VTK_UNSIGNED_SHORT"
    [] t = "GDT_Int16" -> "VTK_SHORT"
    [] t = "GDT_UInt32" -> "VTK_UNSIGNED_INT"
    [] t = "GDT_Int32" -> "VTK_INT"
    [] t = "GDT_Float32" -> "VTK_FLOAT"
    [] t = "GDT_Float64" -> "VTK_DOUBLE"
    [] OTHER -> "VTK_UNSIGNED_CHAR"

\* lines 906-913: the PROJ.4 form of the dataset's projection
ExportToProj4(projection) == IF projection = "" THEN "" ELSE "+proj " \o projection

\* lines 916-945: the two field arrays
FieldData(ds, numberOfBands) ==
  <<[name |-> "MAP_PROJECTION", values |-> <<ExportToProj4(ds.projection)>>],
    [name |-> "NO_DATA_VALUE",
     values |-> [i \in 1..numberOfBands |->
                   IF ds.bands[i].hasNoData
                     THEN [nan |-> FALSE, value |-> ds.bands[i].noData]
                     ELSE [nan |-> TRUE, value |-> 0]]]>>

\* line 213 fetches band 1 and line 216 dereferences it
DerefsNullBand(im, ds) == Len(ds.bands) = 0 /\ im.NumberOfBytesPerPixel = 0

\* the process dies inside a call
Crash(call) ==
  /\ ctl' = [ctl EXCEPT !.crashed = TRUE, !.lastCall = call]
  /\ UNCHANGED <<reader, impl, pipe, gdal, hist>>

\* line 961: what RequestData copies into the pipeline's data object
ShallowCopy(grid) == grid

RequestData ==
  /\ Alive
  /\ IF reader.FileName = NullString
       THEN Crash("RequestData")
     ELSE IF impl.GDALData = Null
       THEN /\ ctl' = [ctl EXCEPT !.lastCall = "RequestData", !.retVal = 0]
            /\ hist' = [hist EXCEPT !.committed = FALSE, !.readFailed = FALSE,
                                    !.passes = <<>>]
            /\ UNCHANGED <<reader, impl, pipe, gdal>>
     ELSE
       LET ds == DatasetOf(gdal, impl.GDALData)
       IN IF DerefsNullBand(impl, ds)
            THEN Crash("RequestData")
            ELSE
              \E im \in {WithDataType(impl, ds)} :
              \E g \in {GenericReadData(ds, im, reader)} :
              \E grid \in {[g.grid EXCEPT !.fieldData = FieldData(ds, im.NumberOfBands)]} :
                 \E crash \in BOOLEAN :
                   IF (g.readFailed /\ ~gdal.ndebug) \/ (g.ub /\ crash)
                     THEN Crash("RequestData")
                     ELSE
                       /\ reader' = [reader EXCEPT
                            !.Projection = ExportToProj4(ds.projection),
                            !.NumberOfScalarComponents = g.NumberOfScalarComponents,
                            !.DataScalarType = ScalarTypeOf(im.TargetDataType)]
                       /\ impl' = [im EXCEPT
                            !.UniformGridData = grid,
                            !.NumberOfCells = g.NumberOfCells,
                            !.HasNoDataValue = g.HasNoDataValue,
                            !.NoDataValue = g.NoDataValue,
                            !.CornerPoints = g.CornerPoints]
                       /\ pipe' = [pipe EXCEPT !.output = ShallowCopy(grid)]
                       /\ ctl' = [ctl EXCEPT !.lastCall = "RequestData", !.retVal = 1]
                       /\ hist' = [hist EXCEPT
                            !.committed = TRUE,
                            !.readFailed = g.readFailed,
                            !.passes = g.passes,
                            !.flips = g.flips,
                            !.closedUse = @ \/ ~gdal.sessions[impl.GDALData].open,
                            !.produceRepeated = @ \/ hist.firstProduce # <<>>,
                            !.firstProduce =
                              IF @ = <<>> /\ hist.firstDescribe # <<>>
                                THEN <<[grid |-> grid, cells |-> g.NumberOfCells]>>
                                ELSE @]
                       /\ UNCHANGED gdal

(***************************************************************************)
(* ~vtkGDALRasterReader, lines 809-817, and ~vtkGDALRasterReaderInternal,  *)
(* lines 146-149.                                                          *)
(***************************************************************************)
Destroy ==
  /\ Alive
  /\ gdal' = ReleaseData(gdal, impl)
  /\ ctl' = [ctl EXCEPT !.destroyed = TRUE, !.lastCall = "Destroy"]
  /\ UNCHANGED <<reader, impl, pipe, hist>>

(***************************************************************************)
(* The main specification: a reader pointed at three paths in turn, two    *)
(* that open and one that does not, until it is destroyed.  The caller     *)
(* leaves the extent and the target size unset.                            *)
(***************************************************************************)
PathA == "a.tif"
PathB == "b.tif"
PathMissing == "missing.tif"
Paths == {PathA, PathB, PathMissing}

\* geotransforms: north-up (Y spacing negative), and mirrored in X
GeoNorthUp == <<100, 1, 0, 200, 0, -1>>
GeoMirrored == <<100, -1, 0, 200, 0, 2>>

\* a.tif: 2x2 byte RGB with a no-data value on the green band
DatasetA ==
  Dataset(2, 2, <<Band("GCI_RedBand", FALSE, 0, TRUE),
                  Band("GCI_GreenBand", TRUE, 2, TRUE),
                  Band("GCI_BlueBand", FALSE, 0, TRUE)>>,
          "GDT_Byte", GeoNorthUp, 0)

\* b.tif: 3x1 16-bit gray plus an undefined band, no geotransform
DatasetB ==
  Dataset(3, 1, <<Band("GCI_GrayIndex", TRUE, 1, TRUE),
                  Band("GCI_Undefined", FALSE, 0, TRUE)>>,
          "GDT_Int16", <<>>, 1)

Files == [p \in Paths |->
            IF p = PathA THEN DatasetA ELSE IF p = PathB THEN DatasetB ELSE NoFile]

InitWith(files, ndebug) ==
  /\ reader = InitReader
  /\ impl = InitImpl
  /\ pipe = InitPipe
  /\ gdal = InitGdal(files, ndebug)
  /\ ctl = InitCtl
  /\ hist = InitHist

Init == InitWith(Files, TRUE)

Next ==
  \/ \E p \in Paths : SetFileName(p)
  \/ RequestInformation
  \/ RequestData
  \/ Destroy

Spec == Init /\ [][Next]_vars

(***************************************************************************)
(* SpecConvert: one file whose bands, no-data values, geotransform signs   *)
(* and failing band vary, read once or more with the default extent and    *)
(* target size, in a build with or without assert.                         *)
(***************************************************************************)
ConvertRoles ==
  {<<"GCI_GrayIndex">>,
   <<"GCI_PaletteIndex">>,
   <<"GCI_GrayIndex", "GCI_AlphaBand">>,
   <<"GCI_Undefined", "GCI_Undefined">>,
   <<"GCI_RedBand", "GCI_GreenBand", "GCI_BlueBand">>}

ConvertSizes == {<<2, 2>>, <<3, 1>>}

\* X and Y pixel sizes of either sign
ConvertGeoTransforms ==
  {<<100, sx, 0, 200, 0, sy>> : sx \in {1, -1}, sy \in {1, -1}}

\* bands ndBands declare no-data value ndValue; band `failing` cannot be read
ConvertDataset(roles, size, gt, ndBands, ndValue, failing) ==
  Dataset(size[1], size[2],
          [k \in 1..Len(roles) |->
             Band(roles[k], k \in ndBands, IF k \in ndBands THEN ndValue ELSE 0,
                  k # failing)],
          "GDT_Byte", gt, 0)

InitConvert ==
  \E roles \in ConvertRoles, size \in ConvertSizes, gt \in ConvertGeoTransforms,
     ndValue \in 0..(PixelValues - 1), ndebug \in BOOLEAN :
    \E ndBands \in SUBSET (1..Len(roles)), failing \in {0, 1, Len(roles)} :
      /\ ndBands = {} => ndValue = 0
      /\ failing = 0 => ndebug
      /\ InitWith([p \in {PathA} |->
                     ConvertDataset(roles, size, gt, ndBands, ndValue, failing)],
                  ndebug)

NextConvert ==
  \/ SetFileName(PathA)
  \/ RequestInformation
  \/ RequestData

SpecConvert == InitConvert /\ [][NextConvert]_vars

(***************************************************************************)
(* Properties of Convert and of the band reads (SpecConvert).              *)
(***************************************************************************)
\* the last call was a RequestData that ran to its end and returned 1
Produced == ctl.lastCall = "RequestData" /\ ctl.retVal = 1 /\ ~ctl.crashed

TargetW == reader.TargetDimensions[1]
TargetH == reader.TargetDimensions[2]

\* sign of the geospatial spacing: opposite corner minus first corner, over
\* the (positive) raster size
XSpacingNegative == impl.CornerPoints[3][1] - impl.CornerPoints[1][1] < 0
YSpacingNegative == impl.CornerPoints[3][2] - impl.CornerPoints[1][2] < 0

\* the buffer value that is the source pixel of output cell (i, j), slot bi,
\* in pass k
SourcePixel(k, i, j, bi) ==
  LET iSrc == IF XSpacingNegative THEN TargetW - 1 - i ELSE i
      jSrc == IF YSpacingNegative THEN TargetH - 1 - j ELSE j
  IN hist.passes[k].raw[bi * TargetW * TargetH + jSrc * TargetW + iSrc]

\* slot bi of pass k declares a no-data value and the cell's source pixel is it
SlotIsNoData(k, i, j, bi) ==
  LET band == hist.passes[k].groupIndex[bi + 1]
  IN /\ impl.HasNoDataValue[band] # 0
     /\ SourcePixel(k, i, j, bi) = impl.NoDataValue[band]

CellIsNoData(k, i, j) ==
  \E bi \in 0..(Len(hist.passes[k].groupIndex) - 1) : SlotIsNoData(k, i, j, bi)

OutputCells == (0..(TargetW - 1)) \X (0..(TargetH - 1))

\* C1: Convert writes, for every output cell (i,j) and slot bi of every pass,
\* the raw buffer value of the (flipped) source position at tuple j*W+i,
\* component bi, blanked or not.
C1_ConvertWritesFlippedRaw ==
  Produced =>
    \A k \in 1..Len(hist.passes) :
      LET n == Len(hist.passes[k].groupIndex)
      IN \A c \in OutputCells, bi \in 0..(n - 1) :
           impl.UniformGridData.arrays[k].values[(c[2] * TargetW + c[1]) * n + bi]
             = SourcePixel(k, c[1], c[2], bi)

\* C1's case: a multi-slot pass, flipped in X only, with a no-data cell
C1_Witness ==
  /\ Produced
  /\ XSpacingNegative /\ ~YSpacingNegative
  /\ TargetW > 1
  /\ Len(hist.passes[1].groupIndex) > 1
  /\ \E c \in OutputCells : CellIsNoData(1, c[1], c[2])

\* C2: after Produce, a cell one of whose slots holds its band's no-data
\* value is blanked under its cell id j*W+i.
C2_NoDataCellBlanked ==
  Produced =>
    \A k \in 1..Len(hist.passes), c \in OutputCells :
      CellIsNoData(k, c[1], c[2])
        => (c[2] * TargetW + c[1]) \in impl.UniformGridData.blanked

\* C3: after Produce, the live-cell count is the sum over the passes of the
\* cells not matching no-data, each counted once per pass.
C3_LiveCellCount ==
  Produced =>
    impl.NumberOfCells =
      SeqSum([k \in 1..Len(hist.passes) |->
                Cardinality({c \in OutputCells : ~CellIsNoData(k, c[1], c[2])})])

\* C8: a Produce one of whose band reads failed returns failure and commits
\* no grid.
C8_ReadErrorFailsProduce ==
  (ctl.lastCall = "RequestData" /\ ~ctl.crashed /\ hist.readFailed)
    => (ctl.retVal = 0 /\ ~hist.committed /\ pipe.output = EmptyOutput)

(***************************************************************************)
(* Properties of the decode-session lifecycle (Spec).                      *)
(***************************************************************************)
\* the metadata ReadMetaData publishes on the reader
PublishedMetaData ==
  <<reader.RasterDimensions, impl.NumberOfBands, reader.DriverShortName,
    reader.DriverLongName, reader.MetaData>>

\* the reader holds a path that GDALOpen cannot open
PathUnopenable == reader.FileName # NullString /\ ~Openable(reader.FileName)

\* the step is a call of RequestInformation, of RequestData
DescribeStep == ctl'.lastCall = "RequestInformation"
ProduceStep == ctl'.lastCall = "RequestData"

\* the call of the step returned failure and left the output and the
\* published metadata as they were
FailsUnchanged ==
  /\ ctl'.retVal = 0 /\ ~ctl'.crashed
  /\ pipe' = pipe
  /\ PublishedMetaData' = PublishedMetaData

\* C9: on a path the decoder cannot open, Describe returns failure, a Produce
\* that follows returns failure, and neither modifies the pipeline output nor
\* the metadata published before.
C9_OpenErrorFailsUnchanged ==
  [][/\ (PathUnopenable /\ DescribeStep) => FailsUnchanged
     /\ (/\ PathUnopenable
         /\ ctl.lastCall = "RequestInformation" /\ ctl.retVal = 0
         /\ ProduceStep) => FailsUnchanged]_vars

\* C9's case: after a.tif was described and produced, Describe and then
\* Produce have failed on the missing path
C9_Witness ==
  /\ reader.FileName = PathMissing
  /\ ctl.lastCall = "RequestData" /\ ctl.retVal = 0
  /\ impl.GDALData = Null
  /\ impl.PrevReadFileName = PathA
  /\ reader.RasterDimensions = <<2, 2>>
  /\ pipe.output # EmptyOutput

\* the sessions that are open
OpenSessions == {k \in 1..Len(gdal.sessions) : gdal.sessions[k].open}

\* what a ReadMetaData that does not hit the cache appends to the log of the
\* decoder: the close of the session held, then the open of the new one
ReopenLog ==
  (IF impl.GDALData # Null THEN <<<<"close", impl.GDALData>>>> ELSE <<>>)
    \o (IF Openable(reader.FileName)
          THEN <<<<"open", Len(gdal.sessions) + 1>>>> ELSE <<>>)

\* C10: a Describe of the cached path opens and closes nothing; a Describe of
\* another path closes the session held before it opens the new one; at most
\* one session is open at a time; no session is closed twice or used after
\* its close; after destruction every session opened has been closed once.
C10_SessionLifecycle ==
  /\ [](/\ Cardinality(OpenSessions) <= 1
        /\ \A k \in 1..Len(gdal.sessions) : gdal.sessions[k].closes <= 1
        /\ ~hist.closedUse
        /\ (impl.GDALData # Null /\ ~ctl.destroyed)
             => gdal.sessions[impl.GDALData].open
        /\ ctl.destroyed =>
             \A k \in 1..Len(gdal.sessions) :
               ~gdal.sessions[k].open /\ gdal.sessions[k].closes = 1)
  /\ [][(DescribeStep /\ reader.FileName # NullString) =>
          IF reader.FileName = impl.PrevReadFileName
            THEN gdal' = gdal
            ELSE gdal'.log = gdal.log \o ReopenLog]_vars

\* C10's case: two sessions were opened one after the other, a Describe of the
\* cached path followed, and the reader was destroyed
C10_Witness ==
  /\ ctl.destroyed
  /\ Len(gdal.sessions) >= 2
  /\ Len(gdal.log) = 2 * Len(gdal.sessions)
  /\ hist.describeRepeated

(***************************************************************************)
(* SpecCycle: one file described and produced over and over, the caller    *)
(* setting the extent and the target size in between.                      *)
(***************************************************************************)
\* one column of the raster; a range that sticks out of the raster
CycleExtents == {<<1, 1, 0, 1, 0, 0>>, <<0, 3, 1, 1, 0, 0>>}

\* a target smaller and a target larger than the window
CycleTargets == {<<1, 1>>, <<2, 3>>}

InitCycle == InitWith([p \in {PathA} |-> DatasetA], TRUE)

NextCycle ==
  \/ SetFileName(PathA)
  \/ \E e \in CycleExtents : SetDataExtent(e)
  \/ \E t \in CycleTargets : SetTargetDimensions(t)
  \/ RequestInformation
  \/ RequestData

SpecCycle == InitCycle /\ [][NextCycle]_vars

\* the last call was a RequestInformation that returned 1
Described ==
  ctl.lastCall = "RequestInformation" /\ ctl.retVal = 1 /\ ~ctl.crashed

SourceWindowNow ==
  [SourceOffset |-> impl.SourceOffset, SourceDimensions |-> impl.SourceDimensions]

\* C4: since the last change of path, extent or target size, every Describe
\* leaves the source window and the rewritten extent of the first Describe,
\* and every Produce after it leaves the grid (arrays, values, blanking,
\* extent, origin, spacing) and the live-cell count of the first such Produce.
C4_CyclesRepeatFirst ==
  /\ Described =>
       /\ hist.firstDescribe # <<>>
       /\ SourceWindowNow = hist.firstDescribe[1].window
       /\ reader.DataExtent = hist.firstDescribe[1].extent
  /\ (Produced /\ hist.firstProduce # <<>>) =>
       /\ SourceWindowNow = hist.firstDescribe[1].window
       /\ reader.DataExtent = hist.firstDescribe[1].extent
       /\ impl.UniformGridData = hist.firstProduce[1].grid
       /\ pipe.output = hist.firstProduce[1].grid
       /\ impl.NumberOfCells = hist.firstProduce[1].cells

\* C4's case: a Produce after a repeated Describe and an earlier Produce of
\* the same series, the window a part of the raster and resampled
C4_Witness ==
  /\ Produced
  /\ hist.describeRepeated /\ hist.produceRepeated
  /\ impl.SourceDimensions # reader.RasterDimensions
  /\ reader.TargetDimensions # impl.SourceDimensions

(***************************************************************************)
(* SpecWindow: Describe under requested extents inside, across and outside *)
(* the raster, reversed, and reaching the largest int.                     *)
(***************************************************************************)
WindowValues == {-2, 0, 1, IntMax}

\* Y ranges: the whole raster, reversed, below the raster, up to the largest int
WindowYRanges == {<<0, 1>>, <<1, 0>>, <<-3, -2>>, <<0, IntMax>>}

WindowExtents ==
  {<<x[1], x[2], y[1], y[2], 0, 0>> :
     x \in WindowValues \X WindowValues, y \in WindowYRanges}

InitWindow == InitWith([p \in {PathA} |-> DatasetA], TRUE)

NextWindow ==
  \/ SetFileName(PathA)
  \/ \E e \in WindowExtents : SetDataExtent(e)
  \/ RequestInformation

SpecWindow == InitWindow /\ [][NextWindow]_vars

\* C5: after a Describe that returned success, on each axis the source
\* offset is within [0, rasterDim], the source size is not negative and
\* offset + size does not exceed rasterDim.
C5_WindowWithinRaster ==
  Described =>
    \A a \in 1..2 :
      /\ 0 <= impl.SourceOffset[a]
      /\ impl.SourceOffset[a] <= reader.RasterDimensions[a]
      /\ impl.SourceDimensions[a] >= 0
      /\ impl.SourceDimensions[a]
           <= reader.RasterDimensions[a] - impl.SourceOffset[a]

(***************************************************************************)
(* SpecClassify: one file of one pixel whose list of band roles is any     *)
(* list of up to MaxBands roles, described and produced.                   *)
(***************************************************************************)
CoreRoles ==
  {"GCI_RedBand", "GCI_GreenBand", "GCI_BlueBand", "GCI_AlphaBand",
   "GCI_GrayIndex", "GCI_PaletteIndex", "GCI_Undefined"}

\* lists with the YCbCr interpretations
YCbCrLists ==
  {<<"GCI_YCbCr_YBand", "GCI_YCbCr_CbBand", "GCI_YCbCr_CrBand">>,
   <<"GCI_YCbCr_CrBand", "GCI_YCbCr_YBand", "GCI_YCbCr_CbBand", "GCI_AlphaBand">>,
   <<"GCI_RedBand", "GCI_YCbCr_YBand", "GCI_GreenBand", "GCI_YCbCr_CrBand">>,
   <<"GCI_YCbCr_CbBand", "GCI_GrayIndex">>}

ClassifyRoleLists ==
  UNION {[1..n -> CoreRoles] : n \in 0..MaxBands} \cup YCbCrLists

ClassifyDataset(roles) ==
  Dataset(1, 1, [k \in 1..Len(roles) |-> Band(roles[k], FALSE, 0, TRUE)],
          "GDT_Byte", GeoNorthUp, 0)

InitClassify ==
  \E roles \in ClassifyRoleLists :
    InitWith([p \in {PathA} |-> ClassifyDataset(roles)], TRUE)

NextClassify ==
  \/ SetFileName(PathA)
  \/ RequestInformation
  \/ RequestData

SpecClassify == InitClassify /\ [][NextClassify]_vars

\* the colour roles the bands of the open dataset declare
BandRoles ==
  [k \in 1..impl.NumberOfBands |-> DatasetOf(gdal, impl.GDALData).bands[k].ci]

\* the canonical role a colour interpretation stands for
RoleClass(ci) ==
  CASE ci \in {"GCI_RedBand", "GCI_YCbCr_YBand"} -> "Red"
    [] ci \in {"GCI_GreenBand", "GCI_YCbCr_CbBand"} -> "Green"
    [] ci \in {"GCI_BlueBand", "GCI_YCbCr_CrBand"} -> "Blue"
    [] ci = "GCI_AlphaBand" -> "Alpha"
    [] ci = "GCI_GrayIndex" -> "Gray"
    [] ci = "GCI_PaletteIndex" -> "Palette"
    [] OTHER -> "none"

\* the lowest-index band that declares the role, or 0
FirstBand(roles, role) ==
  LET declaring == {k \in 1..Len(roles) : RoleClass(roles[k]) = role}
  IN IF declaring = {} THEN 0
     ELSE CHOOSE k \in declaring : \A m \in declaring : k <= m

\* the primary group the priority RGB(+Alpha) > Gray(+Alpha) > Palette > none
\* selects from the first band of each role
ExpectedPrimary(roles) ==
  LET r == FirstBand(roles, "Red")
      g == FirstBand(roles, "Green")
      b == FirstBand(roles, "Blue")
      a == FirstBand(roles, "Alpha")
      gray == FirstBand(roles, "Gray")
      pal == FirstBand(roles, "Palette")
  IN IF r # 0 /\ g # 0 /\ b # 0
       THEN (IF a # 0 THEN <<r, g, b, a>> ELSE <<r, g, b>>)
     ELSE IF gray # 0 THEN (IF a # 0 THEN <<gray, a>> ELSE <<gray>>)
     ELSE IF pal # 0 THEN <<pal>>
     ELSE <<>>

\* the component count the claim gives the primary array
ExpectedComponents(roles) ==
  LET rgb == FirstBand(roles, "Red") # 0 /\ FirstBand(roles, "Green") # 0
               /\ FirstBand(roles, "Blue") # 0
      alpha == FirstBand(roles, "Alpha") # 0
  IN IF rgb THEN (IF alpha THEN 4 ELSE 3)
     ELSE IF FirstBand(roles, "Gray") # 0 THEN (IF alpha THEN 2 ELSE 1)
     ELSE IF FirstBand(roles, "Palette") # 0 THEN 1
     ELSE 0

\* the primary array and the bands of its slots, as produced
PrimaryArray == impl.UniformGridData.arrays[1]

\* the bands of the residual arrays, in the order the arrays were added
ResidualBands ==
  [k \in 1..(Len(impl.UniformGridData.arrays) - 1) |->
     impl.UniformGridData.arrays[k + 1].bands[1]]

\* C6: the primary group is the one the priority RGB(+Alpha) > Gray(+Alpha) >
\* Palette > none selects, made of the first band of each role in the order
\* R,G,B[,A] / Gray[,Alpha] / Palette, and the primary array has 4, 3, 2, 1, 1
\* or 0 components.
C6_PrimaryGroupByPriority ==
  Produced =>
    /\ hist.passes[1].groupIndex = ExpectedPrimary(BandRoles)
    /\ PrimaryArray.bands = ExpectedPrimary(BandRoles)
    /\ PrimaryArray.components = ExpectedComponents(BandRoles)

\* C6's case: a gray band comes first and red, green and blue bands follow;
\* the primary group is the RGB one
C6_Witness ==
  /\ Produced
  /\ BandRoles[1] = "GCI_GrayIndex"
  /\ Len(PrimaryArray.bands) = 3
  /\ PrimaryArray.components = 3

\* every band is one slot of the primary group or one residual array, once;
\* the residual arrays hold one band each and come in ascending band order
BandsPartitioned ==
  LET primary == PrimaryArray.bands
      residual == ResidualBands
  IN /\ Cardinality(Range(primary)) = Len(primary)
     /\ \A k \in 2..Len(impl.UniformGridData.arrays) :
          Len(impl.UniformGridData.arrays[k].bands) = 1
     /\ \A k \in 1..(Len(residual) - 1) : residual[k] < residual[k + 1]
     /\ Range(primary) \cap Range(residual) = {}
     /\ Range(primary) \cup Range(residual) = 1..impl.NumberOfBands

\* band k matches no canonical role, or an earlier band declared its role
UnclaimedBand(roles, k) ==
  \/ RoleClass(roles[k]) = "none"
  \/ \E m \in 1..(k - 1) : RoleClass(roles[m]) = RoleClass(roles[k])

\* the roles whose first band the chosen primary group takes
UsedRoles(roles) ==
  {RoleClass(roles[ExpectedPrimary(roles)[k]]) :
     k \in 1..Len(ExpectedPrimary(roles))}

\* C7 as stated: the bands are partitioned and the residual bands are exactly
\* those that match no canonical role or whose role an earlier band claimed.
C7_ResidualIsUnclaimed ==
  Produced =>
    /\ BandsPartitioned
    /\ Range(ResidualBands)
         = {k \in 1..impl.NumberOfBands : UnclaimedBand(BandRoles, k)}

\* C7 amended: the bands are partitioned, and the residual bands are exactly
\* those that match no canonical role, whose role an earlier band claimed, or
\* whose role the chosen primary group does not use.
C7_ResidualIsNotPrimary ==
  Produced =>
    /\ BandsPartitioned
    /\ Range(ResidualBands)
         = {k \in 1..impl.NumberOfBands :
              \/ UnclaimedBand(BandRoles, k)
              \/ RoleClass(BandRoles[k]) \notin UsedRoles(BandRoles)}

\* C7's case: the residual arrays hold a first claimant of a role the primary
\* group does not use, a later duplicate and a band of no canonical role
C7_Witness ==
  /\ Produced
  /\ \E k \in Range(ResidualBands) : ~UnclaimedBand(BandRoles, k)
  /\ \E k \in Range(ResidualBands) :
       /\ RoleClass(BandRoles[k]) # "none"
       /\ \E m \in 1..(k - 1) : RoleClass(BandRoles[m]) = RoleClass(BandRoles[k])
  /\ \E k \in Range(ResidualBands) : RoleClass(BandRoles[k]) = "none"

(***************************************************************************)
(* Properties of the caches kept from one dataset to the next (Spec).      *)
(***************************************************************************)
\* the dataset behind the session the reader holds
OpenDataset == DatasetOf(gdal, impl.GDALData)

\* C11: after every Produce the element type used for the extraction and for
\* the output arrays is the native pixel type of band 1 of the open dataset,
\* also when the dataset before it had another pixel type.
C11_ElementTypeIsNative ==
  Produced =>
    /\ impl.TargetDataType = OpenDataset.type
    /\ reader.DataScalarType = ScalarTypeOf(OpenDataset.type)

\* the session the reader holds is open on the path the reader was given
HoldsSessionOn(path) ==
  /\ impl.GDALData # Null
  /\ gdal.sessions[impl.GDALData].open
  /\ gdal.sessions[impl.GDALData].path = path

\* C19: once a Describe has failed on a path the decoder cannot open, every
\* later Describe on a path the decoder can open returns success and leaves
\* an open session on that path.
C19_DescribeRecoversAfterOpenError ==
  [][(hist.openFailed /\ DescribeStep /\ Openable(reader.FileName))
       => (ctl'.retVal = 1 /\ HoldsSessionOn(reader.FileName)')]_vars

\* C20: the caller setting neither target size nor extent, after every
\* Describe that returned success the target size is the size of the open
\* raster and the extent and the source window cover that raster in full.
C20_DefaultsFollowOpenRaster ==
  Described =>
    /\ reader.TargetDimensions = <<OpenDataset.xsize, OpenDataset.ysize>>
    /\ reader.DataExtent
         = <<0, OpenDataset.xsize - 1, 0, OpenDataset.ysize - 1, 0, 0>>
    /\ impl.SourceOffset = <<0, 0>>
    /\ impl.SourceDimensions = <<OpenDataset.xsize, OpenDataset.ysize>>

(***************************************************************************)
(* SpecGeo: one gray band, the geotransform of the file any combination of *)
(* pixel sizes of either sign and rotation terms, or missing.              *)
(***************************************************************************)
GeoTransforms ==
  {<<100, a1, a2, 200, a4, a5>> :
     a1 \in {1, -1}, a2 \in {0, 3}, a4 \in {0, -2}, a5 \in {-1, 1}}

\* <<>>: the file has no geotransform
NoGeoTransform == <<>>

GeoDataset(size, gt) ==
  Dataset(size[1], size[2], <<Band("GCI_GrayIndex", FALSE, 0, TRUE)>>,
          "GDT_Byte", gt, 0)

InitGeo ==
  \E gt \in GeoTransforms \cup {NoGeoTransform}, size \in ConvertSizes :
    InitWith([p \in {PathA} |-> GeoDataset(size, gt)], TRUE)

NextGeo ==
  \/ SetFileName(PathA)
  \/ RequestInformation
  \/ RequestData

SpecGeo == InitGeo /\ [][NextGeo]_vars

\* the affine image of pixel corner (px, py) under geotransform a
AffineCorner(a, px, py) ==
  <<a[1] + a[2] * px + a[3] * py, a[4] + a[5] * px + a[6] * py>>

\* the open dataset has a geotransform and no ground control points
Georeferenced ==
  impl.GDALData # Null /\ OpenDataset.hasGeoTransform /\ OpenDataset.gcps = <<>>

NotGeoreferenced ==
  impl.GDALData # Null /\ ~OpenDataset.hasGeoTransform /\ OpenDataset.gcps = <<>>

\* C13: without geotransform and ground control points, Describe and Produce
\* return success, corner resolution gives the pixel corners back and tells
\* so by its return value, and the grid has origin (0,0), unit spacing and no
\* flip.
C13_NoGeoTransformIsPixelSpace ==
  /\ (NotGeoreferenced /\ ctl.lastCall = "RequestInformation")
       => (ctl.retVal = 1 /\ ~ctl.crashed)
  /\ (NotGeoreferenced /\ ctl.lastCall = "RequestData") =>
       LET W == reader.RasterDimensions[1]
           H == reader.RasterDimensions[2]
           grid == impl.UniformGridData
       IN /\ ctl.retVal = 1 /\ ~ctl.crashed
          /\ impl.CornerPoints = <<<<0, 0>>, <<0, H>>, <<W, H>>, <<W, 0>>>>
          /\ ~GetGeoCornerPoint(OpenDataset, W, H).retVal
          /\ grid.origin = <<0, 0, 0>>
          /\ grid.spacing[1].num = grid.spacing[1].den
          /\ grid.spacing[2].num = grid.spacing[2].den
          /\ grid.spacing[3] = 1
          /\ hist.flips = <<FALSE, FALSE>>
          /\ pipe.output = grid

\* C13's case: a Produce on the 3x1 raster without geotransform
C13_Witness ==
  /\ Produced /\ NotGeoreferenced
  /\ reader.RasterDimensions = <<3, 1>>
  /\ pipe.outInfo.set

\* the primary array holds the source buffer in the buffer's own order
NoFlip ==
  \A c \in OutputCells :
    impl.UniformGridData.arrays[1].values[c[2] * TargetW + c[1]]
      = hist.passes[1].raw[c[2] * TargetW + c[1]]

XSpacingPositive == impl.CornerPoints[3][1] - impl.CornerPoints[1][1] > 0
YSpacingPositive == impl.CornerPoints[3][2] - impl.CornerPoints[1][2] > 0

\* C18 as stated: X and Y spacing both positive or both negative, every
\* output cell (i,j) takes the source buffer pixel (i,j).
C18_SameSignNoFlip ==
  (Produced /\ (\/ XSpacingPositive /\ YSpacingPositive
                \/ XSpacingNegative /\ YSpacingNegative)) => NoFlip

\* C18 amended: X and Y spacing both positive, every output cell (i,j) takes
\* the source buffer pixel (i,j).
C18_BothPositiveNoFlip ==
  (Produced /\ XSpacingPositive /\ YSpacingPositive) => NoFlip

\* C18's case: both spacings positive on a raster of more than one column
C18_Witness ==
  Produced /\ XSpacingPositive /\ YSpacingPositive /\ TargetW > 1

(***************************************************************************)
(* SpecPalette: a file with a palette band, alone or beside other bands,   *)
(* whose colour table is RGB or not, has up to MaxEntries entries, and     *)
(* whose category names are not declared, empty or given.                  *)
(***************************************************************************)
\* most entries a colour table of the universe has
MaxEntries == 2

PaletteInterps == {"GPI_RGB", "GPI_Gray"}

\* the category names a band of n entries declares: one per entry
CategoryNameLists(n) == [1..n -> {"", "water"}]

\* where the palette band stands among the bands ("P")
PaletteLayouts ==
  {<<"P">>, <<"P", "GCI_Undefined">>, <<"GCI_GrayIndex", "P">>,
   <<"GCI_RedBand", "GCI_GreenBand", "P">>}

PaletteDataset(layout, palette) ==
  Dataset(2, 1,
          [k \in 1..Len(layout) |->
             IF layout[k] = "P" THEN palette
             ELSE Band(layout[k], FALSE, 0, TRUE)],
          "GDT_Byte", GeoNorthUp, 0)

InitPalette ==
  \E layout \in PaletteLayouts, interp \in PaletteInterps,
     entries \in 0..MaxEntries, hasNames \in BOOLEAN :
    \E names \in CategoryNameLists(entries) :
      /\ ~hasNames => \A k \in 1..entries : names[k] = ""
      /\ InitWith([p \in {PathA} |->
                     PaletteDataset(layout,
                       PaletteBand(interp, entries, hasNames, names))],
                  TRUE)

NextPalette ==
  \/ SetFileName(PathA)
  \/ RequestInformation
  \/ RequestData

SpecPalette == InitPalette /\ [][NextPalette]_vars

\* the palette band of the open dataset
PaletteOf(ds) ==
  ds.bands[CHOOSE k \in 1..Len(ds.bands) : ds.bands[k].ci = "GCI_PaletteIndex"]

HasPaletteBand ==
  \E k \in 1..Len(OpenDataset.bands) : OpenDataset.bands[k].ci = "GCI_PaletteIndex"

\* the primary group is the palette group
PrimaryIsPalette ==
  /\ Len(PrimaryArray.bands) = 1
  /\ BandRoles[PrimaryArray.bands[1]] = "GCI_PaletteIndex"

\* the open dataset with the palette interpretation of its palette band RGB
WithRgbPalette(ds) ==
  [ds EXCEPT !.bands =
     [k \in 1..Len(ds.bands) |->
        IF ds.bands[k].ci = "GCI_PaletteIndex"
          THEN [ds.bands[k] EXCEPT !.table.interp = "GPI_RGB"]
          ELSE ds.bands[k]]]

\* what an array is apart from its name
ArrayData(a) == [components |-> a.components, bands |-> a.bands, values |-> a.values]

\* C14: the palette interpretation not being RGB, Produce attaches no lookup
\* table and produces no "Categories" array, and the arrays are those a
\* Produce with an RGB palette yields: the same data, and the same names but
\* for the primary one.
C14_NonRgbPaletteYieldsNoTable ==
  (Produced /\ PrimaryIsPalette /\ PaletteOf(OpenDataset).table.interp # "GPI_RGB") =>
    LET grid == impl.UniformGridData
        good == GenericReadData(WithRgbPalette(OpenDataset), impl, reader).grid
    IN /\ ~grid.hasLookupTable
       /\ \A k \in 1..Len(grid.arrays) : grid.arrays[k].name # "Categories"
       /\ Len(grid.arrays) = Len(good.arrays)
       /\ \A k \in 1..Len(grid.arrays) :
            /\ ArrayData(grid.arrays[k]) = ArrayData(good.arrays[k])
            /\ k > 1 => grid.arrays[k].name = good.arrays[k].name

\* C15: for an RGB palette of N entries the colour table annotates every
\* index i in 0..N-1: with the category name declared for i when it is not
\* empty, and with "Category i" otherwise.
C15_EveryEntryAnnotated ==
  (Produced /\ PrimaryIsPalette /\ PaletteOf(OpenDataset).table.interp = "GPI_RGB") =>
    LET table == PaletteOf(OpenDataset).table
        annotations == impl.UniformGridData.lookupTable.annotations
    IN /\ impl.UniformGridData.hasLookupTable
       /\ Len(annotations) = table.entries
       /\ \A i \in 0..(table.entries - 1) :
            /\ annotations[i + 1].index = i
            /\ annotations[i + 1].kind # "none"
            /\ annotations[i + 1].text =
                 IF table.hasNames /\ table.names[i + 1] # ""
                   THEN table.names[i + 1]
                   ELSE "Category " \o ToString(i)

\* C17: the primary array is "Categories", with the colour table, exactly
\* when the primary group is the palette group, "Elevation" when it is an RGB
\* or gray group also beside a palette band, and residual band k is "band_k".
C17_ArrayNames ==
  Produced =>
    /\ PrimaryIsPalette =>
         PrimaryArray.name = "Categories" /\ impl.UniformGridData.hasLookupTable
    /\ ~PrimaryIsPalette =>
         PrimaryArray.name = "Elevation" /\ ~impl.UniformGridData.hasLookupTable
    /\ \A k \in 1..Len(ResidualBands) :
         impl.UniformGridData.arrays[k + 1].name
           = "band_" \o ToString(ResidualBands[k])

\* C16: on a dataset of zero bands Produce completes without an invalid
\* access: it returns success and the output has no array read from a band.
C16_ZeroBandsProduceCompletes ==
  (ctl.lastCall = "RequestData" /\ impl.GDALData # Null /\ Len(OpenDataset.bands) = 0) =>
    /\ ~ctl.crashed
    /\ ctl.retVal = 1

\* the source pixel range a requested extent names on each axis, cut to the
\* raster: columns e[1]..e[2], and rows counted from the top, so that row y of
\* the extent is source row H - 1 - y
RequestedRange(e, rasterDimensions) ==
  <<[lo |-> Max(e[1], 0), hi |-> Min(e[2], rasterDimensions[1] - 1)],
    [lo |-> Max(rasterDimensions[2] - 1 - e[4], 0),
     hi |-> Min(rasterDimensions[2] - 1 - e[3], rasterDimensions[2] - 1)]>>

\* C21: a Describe that follows SetDataExtent and returns success leaves, on
\* each axis, the source window that is the intersection of the requested
\* pixel range with the raster: empty when they do not meet, and otherwise
\* starting at the first requested pixel inside the raster and as long as the
\* part of the request that lies inside it.
C21_WindowIsIntersection ==
  [][(/\ ctl.lastCall = "SetDataExtent"
      /\ DescribeStep /\ ctl'.retVal = 1 /\ ~ctl'.crashed)
     => \A a \in 1..2 :
          LET r == RequestedRange(reader.DataExtent, reader'.RasterDimensions)[a]
          IN IF r.hi < r.lo
               THEN impl'.SourceDimensions[a] = 0
               ELSE /\ impl'.SourceOffset[a] = r.lo
                    /\ impl'.SourceDimensions[a] = r.hi - r.lo + 1]_vars

====
